---- MODULE Spec2Model ----
(***************************************************************************)
(* DMA-backed file transfer of the PLDM OEM file-I/O responder             *)
(* (oem/ibm/libpldmresponder/file_io.hpp): class dma::DMA and the          *)
(* function template dma::transferAll with its two event-loop callbacks.   *)
(*                                                                         *)
(* The event loop is single threaded: transferAll, the readiness callback  *)
(* and the timer callback each run to completion, so each is one action.   *)
(* A shared_ptr reference held by a local of a handler is released when    *)
(* the handler returns; deleting a Timer or an IO removes the event source *)
(* and destroys the closure it owns.                                       *)
(*                                                                         *)
(* Beside the transfer: the match on the license object of                 *)
(* oem_ibm::Handler (file_io.hpp), main of the soft-off program            *)
(* (softoff/main.cpp), and the CustomDBus singleton as its unit test       *)
(* (host-bmc/test/custom_dbus_test.cpp) uses it.                           *)
(***************************************************************************)
EXTENDS Integers, Sequences, FiniteSets, TLC

(* ------------------------------ bounds -------------------------------- *)
\* number of transferAll calls (sessions) in a behaviour
NumSessions == 2
\* a request needs at most MaxChunks DMA operations
MaxChunks == 3
\* file offsets of the requests: 0..MaxOffset
MaxOffset == 1
\* descriptors of the process: 0..MaxFd
MaxFd == 4
\* readiness events with EPOLLIN or EPOLLOUT dispatched to one session
MaxWakes == 2
\* words on the command line of the soft-off program
MaxArgs == 2
\* signals of the message bus taken by the matches in a behaviour
MaxSignals == 2
\* signals of the host state taken by hostOffMatch in a behaviour
MaxHostSignals == 3
\* SetEventReceiver requests counted between two resets of the count
MaxCount == 2

(* -------------------------- program constants -------------------------- *)
\* dma::minSize
minSize == 16
\* dma::maxSize (DMA_MAXSIZE, a build option; scaled down to two minSize)
maxSize == 32
PLDM_SUCCESS == 0
PLDM_ERROR == 1
\* <cstdlib>
EXIT_FAILURE == 1
\* the Timer of a transfer: first expiry after 20 seconds, then every second
TimerDeadline == 20
TimerInterval == 1
\* the events the IO source of a transfer waits for
IOEvents == {"EPOLLIN", "EPOLLOUT"}
\* the flags an event mask given to the IO callback is made of
EventFlags == IOEvents \cup {"EPOLLERR", "EPOLLHUP"}
\* the completion code of a length below dma::minSize, by its name
PLDM_ERROR_INVALID_LENGTH == "PLDM_ERROR_INVALID_LENGTH"

Sessions == 1..NumSessions
\* owners of a descriptor that are no session
Closed == 0
Process == -1
Offsets == 0..MaxOffset
FdSpace == 0..MaxFd
MaxLen == MaxChunks * maxSize
\* the boundary lengths of a transfer: minSize, maxSize, maxSize + 1, MaxLen
Lengths == {minSize, maxSize, maxSize + 1, MaxLen}
\* The memory-command requests: one of each boundary length, at file offsets
\* in Offsets that differ between the lengths, and at host addresses whose
\* ranges do not meet.
FileOffset(len) == len % (MaxOffset + 1)
HostAddress(len) == 4096 + 256 * FileOffset(len)
Requests == {[offset |-> FileOffset(len), length |-> len,
              address |-> HostAddress(len)] : len \in Lengths}
\* lengths below dma::minSize, and the requests that carry them
ShortLengths == {0, minSize - 1}
ShortRequests == {[offset |-> FileOffset(len), length |-> len,
                   address |-> HostAddress(len)] : len \in ShortLengths}
\* the keys of the response headers
Keys == 1..NumSessions
\* how a transferDataHost call goes: the buffer cannot be mapped, the DMA
\* operation fails (both return a negative errno), it returns a count that is
\* not the requested length, or it returns the requested length
RcKinds == {"mapfail", "err", "zero", "full"}
SetupKinds == {"nullintf", "openfail", "timerfail", "iofail", "ok"}
Outcomes == {"none", "success", "chunkfail", "timeout",
             "nullintf", "openfail", "timerfail", "iofail"}

(* ------------------------- 32-bit unsigned values ----------------------- *)
\* A uint32_t is kept as its two 16-bit halves, value hi * 2^16 + lo, so that
\* every value up to 2^32 - 1 and every wrap at 2^32 is exact.
Half == 65536
U32 == [hi : 0..(Half - 1), lo : 0..(Half - 1)]
\* the uint32_t of a number below 2^31
U32Of(n) == [hi |-> n \div Half, lo |-> n % Half]
\* x / p and x % p for a divisor p of at most 2^15
U32Div(x, p) == (x.hi \div p) * Half + ((x.hi % p) * Half + x.lo) \div p
U32Mod(x, p) == ((x.hi % p) * Half + x.lo) % p
\* n * p stored in a uint32_t, for n below 2^20 and p of at most 2^15
U32Mul(n, p) ==
    LET low == (n % Half) * p
    IN  [hi |-> ((n \div Half) * p + low \div Half) % Half, lo |-> low % Half]
\* x += p in a uint32_t
U32Add(x, p) ==
    LET low == x.lo + p
    IN  [hi |-> (x.hi + low \div Half) % Half, lo |-> low % Half]
\* x > y
U32Gt(x, y) == x.hi > y.hi \/ (x.hi = y.hi /\ x.lo > y.lo)
\* the int32_t a uint32_t converts to
Int32Of(x) ==
    IF x.hi >= Half \div 2 THEN (x.hi - Half) * Half + x.lo
    ELSE x.hi * Half + x.lo
\* what getpagesize() may return
PageSizes == {4096, 16384}
\* the halves the transfer lengths of the constructor are drawn from: around
\* 0, the page sizes, 2^31 and 2^32
LengthHi == {0, 1, 16383, 32767, 32768, 65535}
LengthLo == {0, 1, 16, 4095, 4096, 4097, 16384, 49151, 49152, 49153,
             61439, 61440, 61441, 65535}
CtorLengths == {x \in [hi : LengthHi, lo : LengthLo] : x.hi > 0 \/ x.lo >= minSize}

VARIABLES
    started,        \* number of transferAll calls made so far
    req,            \* req[s]: the arguments offset, length, address of call s
    respInterface,  \* respInterface[s]: responseHdr.respInterface != nullptr
    dma,            \* dma[s]: the DMA object of call s
    part,           \* the function-local static IOPart of transferAll
    ioSrc,          \* sessions whose IO event source exists in the event loop
    timerSrc,       \* sessions whose Timer event source exists
    fdOwner,        \* fdOwner[f]: who holds descriptor f open: a session,
                    \* Process (a standard stream), or Closed
    responses,      \* responses[s]: what sendPLDMRespMsg was given, in order
    chunks,         \* chunks[s]: the transferDataHost calls of s, in order
    outcome,        \* outcome[s]: the path on which s ended, "none" before
    wakes,          \* wakes[s]: EPOLLIN/EPOLLOUT events dispatched to s so far
    mapped,         \* mapped[s]: mappings of the DMA device s holds (mmap
                    \* without munmap)
    key,            \* key[s]: responseHdr.key of call s
    sentKeys,       \* sentKeys[s]: the keys sendPLDMRespMsg was given, in
                    \* the order of responses[s]
    returned,       \* returned[s]: whether the command handler of s has
                    \* returned, and the Response it returned
    pageSize,       \* the static pageSize of the constructor: getpagesize()
    made,           \* a DMA object constructed on its own
    revents,        \* the event mask of the readiness event dispatched last
    dispatched,     \* flips at every readiness event that is recorded
    softoff,        \* the last run of the soft-off program: its arguments,
                    \* what SoftPowerOff answered, and how main ended
    customDBus,     \* the maps of the CustomDBus singleton, from object
                    \* path to the interface object of each property
    dbusCall,       \* the CustomDBus setter called last, and what the map
                    \* of its property held for the path before the call
    license,        \* the PropertiesChanged signals of the license object
                    \* so far: the properties of each and the license
                    \* string newLicFileAvailable was called with for it
    signals,        \* the InterfacesAdded signals so far: the match that
                    \* took each, its interfaces, and whether the callback
                    \* ended by an exception
    dbusToFileHandlers, \* oem_ibm::Handler::dbusToFileHandlers: the path
                    \* each element was made with
    notifications,  \* the notifications to the host started so far, each
                    \* with its arguments
    hostOff,        \* oem_ibm_platform::Handler::hostOff
    hostTransitioningToOff, \* Handler::hostTransitioningToOff
    setEventReceiverCnt,    \* Handler::setEventReceiverCnt
    timer,          \* whether the surveillance timer of the handler is
                    \* enabled
    watchDog,       \* whether the host watchdog is enabled
    licenseStatus,  \* the status of the license objects
    hostSignals,    \* the PropertiesChanged signals of the host state so
                    \* far: the properties of each, whether the callback
                    \* ended by an exception, and the count and the timer
                    \* it found
    slotPower,      \* slotPower[p]: the PowerState property of object p
                    \* under the motherboard
    powerSignal     \* the PropertiesChanged signal of the chassis state
                    \* taken last: its properties, the answer of the
                    \* subtree query, the objects setDbusProperty was called
                    \* for, the errors logged, and whether an exception
                    \* left the callback

\* the variables of the constructor on its own and of the event log
pageVars == <<pageSize, made>>
logVars == <<revents, dispatched>>
\* the variables of the programs beside the file transfer
\* the variables of the transfers
transferVars == <<started, req, respInterface, dma, part, ioSrc, timerSrc,
                  fdOwner, responses, chunks, outcome, wakes, mapped, key,
                  sentKeys, returned>>
\* the variables of the programs beside the file transfer: the soft-off
\* program, the matches of oem_ibm::Handler, CustomDBus
softoffVars == <<softoff>>
matchVars == <<license, signals, dbusToFileHandlers, notifications>>
dbusVars == <<customDBus, dbusCall>>
\* the variables of oem_ibm_platform::Handler: the host-state match and
\* the chassis-state match
hostVars == <<hostOff, hostTransitioningToOff, setEventReceiverCnt, timer,
              watchDog, licenseStatus, hostSignals>>
chassisVars == <<slotPower, powerSignal>>
platformVars == <<hostVars, chassisVars>>
otherVars == <<softoffVars, matchVars, dbusVars, platformVars>>

vars == <<started, req, respInterface, dma, part, ioSrc, timerSrc, fdOwner,
          responses, chunks, outcome, wakes, mapped, key, sentKeys, returned,
          pageVars, logVars, otherVars>>

(* ------------------------------ class DMA ------------------------------ *)
\* timerArgs and ioArgs: what the Timer and the IO the object was last given
\* were constructed with; found: which of its members the destructor found
\* not null when it began
NoDMA == [state |-> "none", responseReceived |-> FALSE, xdmaFd |-> -1,
          sourceFd |-> -1, iotPtr |-> FALSE, iotPtrbc |-> FALSE,
          timer |-> FALSE, use_count |-> 0,
          m_length |-> U32Of(0), pageAlignedLength |-> U32Of(0),
          timerArgs |-> [deadline |-> 0, interval |-> 0],
          ioArgs |-> [fd |-> -1, events |-> {}],
          found |-> [iotPtr |-> FALSE, iotPtrbc |-> FALSE, timer |-> FALSE]]

\* the page-aligned length the constructor computes
pageAlign(m_length, pgSize) ==
    LET numPages == U32Div(m_length, pgSize)
        a == U32Mul(numPages, pgSize)
    IN  IF U32Gt(m_length, a) THEN U32Add(a, pgSize) ELSE a

\* DMA(uint32_t length), held by the caller's shared_ptr
NewDMA(length) ==
    [NoDMA EXCEPT !.state = "alive", !.use_count = 1, !.m_length = length,
                  !.pageAlignedLength = pageAlign(length, pageSize)]

\* DMA::getpageAlignedLength
getpageAlignedLength(d) == Int32Of(d.pageAlignedLength)

\* The view a handler of session s works on: the DMA object, the two event
\* sources, the descriptors, what it sent and submitted, the static part,
\* and the handler's own locals (k: transferDataHost calls made in this
\* invocation, ret: the handler has returned).
View(s) == [s |-> s, d |-> dma[s], io |-> s \in ioSrc, tm |-> s \in timerSrc,
            fds |-> fdOwner, resp |-> responses[s], ch |-> chunks[s],
            part |-> part, out |-> outcome[s], maps |-> mapped[s],
            key |-> key[s], keys |-> sentKeys[s], rv |-> returned[s],
            k |-> 0, ret |-> FALSE]

Commit(s, v) ==
    /\ dma' = [dma EXCEPT ![s] = v.d]
    /\ ioSrc' = IF v.io THEN ioSrc \cup {s} ELSE ioSrc \ {s}
    /\ timerSrc' = IF v.tm THEN timerSrc \cup {s} ELSE timerSrc \ {s}
    /\ fdOwner' = v.fds
    /\ responses' = [responses EXCEPT ![s] = v.resp]
    /\ chunks' = [chunks EXCEPT ![s] = v.ch]
    /\ part' = v.part
    /\ outcome' = [outcome EXCEPT ![s] = v.out]
    /\ mapped' = [mapped EXCEPT ![s] = v.maps]
    /\ sentKeys' = [sentKeys EXCEPT ![s] = v.keys]
    /\ returned' = [returned EXCEPT ![s] = v.rv]

\* open(2) returns the lowest descriptor not open in the process, -1 when
\* there is none
LowestFree(fds) ==
    LET free == {f \in FdSpace : fds[f] = Closed}
    IN  IF free = {} THEN -1
        ELSE CHOOSE f \in free : \A g \in free : f <= g

\* open(2) by session s returned fd
openFd(fds, fd, s) == IF fd \in FdSpace THEN [fds EXCEPT ![fd] = s] ELSE fds

\* close(2)
closeFd(fds, fd) == IF fd \in FdSpace THEN [fds EXCEPT ![fd] = Closed] ELSE fds

\* DMA::~DMA
Destructor(v) ==
    LET a == IF v.d.iotPtr
             THEN [v EXCEPT !.d.iotPtrbc = TRUE, !.d.iotPtr = FALSE] ELSE v
        b == IF a.d.iotPtrbc
             THEN [a EXCEPT !.d.iotPtrbc = FALSE, !.io = FALSE] ELSE a
        c == IF b.d.timer
             THEN [b EXCEPT !.d.timer = FALSE, !.tm = FALSE] ELSE b
        e == IF c.d.xdmaFd > 0
             THEN [c EXCEPT !.fds = closeFd(@, c.d.xdmaFd), !.d.xdmaFd = -1]
             ELSE c
        f == IF e.d.sourceFd > 0
             THEN [e EXCEPT !.fds = closeFd(@, e.d.sourceFd), !.d.sourceFd = -1]
             ELSE e
    IN  [f EXCEPT !.d.state = "destroyed",
                  !.d.found = [iotPtr |-> v.d.iotPtr, iotPtrbc |-> v.d.iotPtrbc,
                               timer |-> v.d.timer]]

\* A shared_ptr<DMA> held by a local or a parameter goes out of scope: the
\* object is destroyed when no closure holds another reference.
sharedPtrRelease(v) ==
    IF v.d.state = "alive"
    THEN LET w == [v EXCEPT !.d.use_count = @ - 1]
         IN  IF w.d.use_count = 0 THEN Destructor(w) ELSE w
    ELSE v

\* getNewXdmaFd handing out a descriptor another session holds open, when
\* there is one, in place of opening the device again
getNewXdmaFd_shared(v, openOk) ==
    LET held == {f \in FdSpace : v.fds[f] \in Sessions \ {v.s}}
        fd == IF ~openOk THEN -1
              ELSE IF held # {} THEN CHOOSE f \in held : \A g \in held : f >= g
              ELSE LowestFree(v.fds)
    IN  [v EXCEPT !.d.xdmaFd = fd, !.fds = openFd(@, fd, v.s)]

\* DMA::getNewXdmaFd with the result of open(xdmaDev): ok or failed
getNewXdmaFd(v, openOk) ==
    LET fd == IF openOk THEN LowestFree(v.fds) ELSE -1
    IN  [v EXCEPT !.d.xdmaFd = fd, !.fds = openFd(@, fd, v.s)]

\* DMA::setDMASourceFd
setDMASourceFd(v, fd) == [v EXCEPT !.d.sourceFd = fd]

\* DMA::initTimer: the Timer takes the closure timerCb, which holds a copy
\* of the shared_ptr intf
initTimer(v, timerOk) ==
    IF timerOk
    THEN [v EXCEPT !.d.timer = TRUE, !.tm = TRUE, !.d.use_count = @ + 1,
                   !.d.timerArgs = [deadline |-> TimerDeadline,
                                    interval |-> TimerInterval]]
    ELSE v

\* DMA::insertIOInstance(make_unique<IO>(event, fd, events, callback)): the
\* closure callback holds only a weak_ptr
insertIOInstance(v, fd, events) ==
    [v EXCEPT !.d.iotPtr = TRUE, !.io = TRUE,
              !.d.ioArgs = [fd |-> fd, events |-> events]]

\* deleteIOInstance releasing the IO only, the timer kept
deleteIOInstance_keepsTimer(v) ==
    IF v.d.iotPtr
    THEN [v EXCEPT !.d.iotPtrbc = TRUE, !.d.iotPtr = FALSE] ELSE v

\* DMA::deleteIOInstance
deleteIOInstance(v) ==
    LET a == IF v.d.timer
             THEN [v EXCEPT !.d.timer = FALSE, !.tm = FALSE,
                            !.d.use_count = @ - 1]
             ELSE v
    IN  IF a.d.iotPtr
        THEN [a EXCEPT !.d.iotPtrbc = TRUE, !.d.iotPtr = FALSE] ELSE a

\* DMA::setResponseReceived
setResponseReceived(v, bresponse) ==
    [v EXCEPT !.d.responseReceived = bresponse]

\* DMA::getResponseReceived
getResponseReceived(v) == v.d.responseReceived

\* the send without the test of the response interface
sendPLDMRespMsg_unguarded(v, ri, cc, length) ==
    [v EXCEPT !.resp = Append(@, [cc |-> cc, length |-> length]),
              !.keys = Append(@, v.key)]

\* if (responseHdr.respInterface != nullptr) sendPLDMRespMsg(response, key)
\* after encode_rw_file_memory_resp(instance_id, command, cc, length, ...)
sendPLDMRespMsg(v, ri, cc, length) ==
    IF ri THEN [v EXCEPT !.resp = Append(@, [cc |-> cc, length |-> length]),
                         !.keys = Append(@, v.key)]
    ELSE v

\* return of a Response from a command handler or from transferAll
return(v, response) == [v EXCEPT !.rv = [done |-> TRUE, response |-> response]]

\* DMA::getXDMAsharedlocation with the result of mmap: ok or MAP_FAILED;
\* a mapping is made only on a valid descriptor and when mmap succeeds
getXDMAsharedlocation(v, mmapOk) ==
    IF v.d.xdmaFd < 0 THEN v
    ELSE IF mmapOk THEN [v EXCEPT !.maps = @ + 1]
    ELSE v

\* the value transferDataHost returns for a chunk of the given length
RcValue(kind, length) ==
    CASE kind \in {"mapfail", "err"} -> -1
      [] kind = "zero" -> 0
      [] OTHER -> length

\* the buffer of one DMA operation kept mapped after the operation
XdmaBuffer_leaked(v, kind) == getXDMAsharedlocation(v, kind # "mapfail")

\* The buffer of one DMA operation: mapped from the device when the operation
\* begins and held by a scoped resource that unmaps it on every way out.
XdmaBuffer(v, kind) ==
    LET a == getXDMAsharedlocation(v, kind # "mapfail")
    IN  [a EXCEPT !.maps = v.maps]

\* DMA::transferDataHost(file, offset, length, address, upstream): one DMA
\* operation through the mapped buffer, returning RcValue(kind, length)
transferDataHost(v, offset, length, address, kind) ==
    LET a == XdmaBuffer(v, kind)
    IN  [a EXCEPT !.ch = Append(@, [offset |-> offset, length |-> length,
                                    address |-> address,
                                    rc |-> RcValue(kind, length)]),
                  !.k = @ + 1]

(* ----------------------------- transferAll ----------------------------- *)
\* timerCb without its teardown: it responds and leaves the timer and the
\* IO registration in place
timerCb_noTeardown(v, ri) ==
    IF ~getResponseReceived(v)
    THEN [sendPLDMRespMsg(v, ri, PLDM_ERROR, 0) EXCEPT !.out = "timeout"]
    ELSE v

\* timerCb with the test of the latch inverted
timerCb_invertedLatch(v, ri) ==
    IF getResponseReceived(v)
    THEN LET a == sendPLDMRespMsg(v, ri, PLDM_ERROR, 0)
             b == deleteIOInstance(a)
         IN  [b EXCEPT !.out = "timeout"]
    ELSE v

\* timerCb reporting the length that was left in place of 0
timerCb_reportsLength(v, ri) ==
    IF ~getResponseReceived(v)
    THEN LET a == sendPLDMRespMsg(v, ri, PLDM_ERROR, v.part.length)
             b == deleteIOInstance(a)
         IN  [b EXCEPT !.out = "timeout"]
    ELSE v

\* the lambda timerCb of transferAll
timerCb(v, ri) ==
    IF ~getResponseReceived(v)
    THEN LET a == sendPLDMRespMsg(v, ri, PLDM_ERROR, 0)
             b == deleteIOInstance(a)
         IN  [b EXCEPT !.out = "timeout"]
    ELSE v

\* the error branch without its return statement
chunkFailed_noReturn(v, ri) ==
    LET a == sendPLDMRespMsg(v, ri, PLDM_ERROR, 0)
        b == deleteIOInstance(a)
    IN  [b EXCEPT !.out = "chunkfail"]

\* the error branch shared by the chunk submissions of callback
chunkFailed(v, ri) ==
    LET a == sendPLDMRespMsg(v, ri, PLDM_ERROR, 0)
        b == deleteIOInstance(a)
    IN  [b EXCEPT !.out = "chunkfail", !.ret = TRUE]

\* the while loop of callback: chunks of maxSize while more than maxSize
\* remains; rcs[i] is what the i-th transferDataHost call returns. The
\* requests keep offset + length and address + length far below 2^32 and
\* 2^64, so the unsigned additions do not wrap.
RECURSIVE whileLoop(_, _, _)
\* the loop leaving after one chunk, the rest of the request left to the
\* code after the loop
whileLoop_oneChunk(v, ri, rcs) ==
    IF v.part.length > maxSize
    THEN LET rc == RcValue(rcs[v.k + 1], maxSize)
             a == transferDataHost(v, v.part.offset, maxSize,
                                   v.part.address, rcs[v.k + 1])
             b == [a EXCEPT !.part = [length |-> v.part.length - maxSize,
                                      offset |-> v.part.offset + maxSize,
                                      address |-> v.part.address + maxSize]]
         IN  IF rc < 0 THEN chunkFailed(b, ri) ELSE b
    ELSE v

whileLoop(v, ri, rcs) ==
    IF v.part.length > maxSize
    THEN LET rc == RcValue(rcs[v.k + 1], maxSize)
             a == transferDataHost(v, v.part.offset, maxSize,
                                   v.part.address, rcs[v.k + 1])
             b == [a EXCEPT !.part = [length |-> v.part.length - maxSize,
                                      offset |-> v.part.offset + maxSize,
                                      address |-> v.part.address + maxSize]]
         IN  IF rc < 0 THEN chunkFailed(b, ri) ELSE whileLoop(b, ri, rcs)
    ELSE v

\* the success branch without its teardown
chunkCompleted_noTeardown(v, ri, origLength) ==
    LET a == setResponseReceived(v, TRUE)
        b == sendPLDMRespMsg(a, ri, PLDM_SUCCESS, origLength)
    IN  [b EXCEPT !.out = "success", !.ret = TRUE]

\* the success branch without setResponseReceived(true)
chunkCompleted_noLatch(v, ri, origLength) ==
    LET b == sendPLDMRespMsg(v, ri, PLDM_SUCCESS, origLength)
        c == deleteIOInstance(b)
    IN  [c EXCEPT !.out = "success", !.ret = TRUE]

\* the success branch deleting the IO but leaving the timer armed
chunkCompleted_keepsTimer(v, ri, origLength) ==
    LET a == setResponseReceived(v, TRUE)
        b == sendPLDMRespMsg(a, ri, PLDM_SUCCESS, origLength)
        c == deleteIOInstance_keepsTimer(b)
    IN  [c EXCEPT !.out = "success", !.ret = TRUE]

\* the success branch of callback
chunkCompleted(v, ri, origLength) ==
    LET a == setResponseReceived(v, TRUE)
        b == sendPLDMRespMsg(a, ri, PLDM_SUCCESS, origLength)
        c == deleteIOInstance(b)
    IN  [c EXCEPT !.out = "success", !.ret = TRUE]

\* the last call followed by success on any count that is not negative
finalChunk_anyCount(v, ri, rcs, origLength) ==
    LET rc == RcValue(rcs[v.k + 1], v.part.length)
        a == transferDataHost(v, v.part.offset, v.part.length,
                              v.part.address, rcs[v.k + 1])
    IN  IF rc < 0 THEN chunkFailed(a, ri)
        ELSE chunkCompleted(a, ri, origLength)

\* the last transferDataHost call of callback and what follows it
finalChunk(v, ri, rcs, origLength) ==
    LET rc == RcValue(rcs[v.k + 1], v.part.length)
        a == transferDataHost(v, v.part.offset, v.part.length,
                              v.part.address, rcs[v.k + 1])
    IN  IF rc < 0 THEN chunkFailed(a, ri)
        ELSE IF v.part.length = rc THEN chunkCompleted(a, ri, origLength)
        ELSE a

\* callback without the test of the event mask
callback_anyMask(v, ri, inout, rcs, origLength) ==
    LET locked == [v EXCEPT !.d.use_count = @ + 1]
        a == whileLoop(locked, ri, rcs)
        b == IF a.ret THEN a ELSE finalChunk(a, ri, rcs, origLength)
    IN  sharedPtrRelease(b)

\* the lambda callback of transferAll; inout: revents & (EPOLLIN | EPOLLOUT).
\* Its local weakPtr = wInterface.lock() is a shared_ptr released on return.
callback(v, ri, inout, rcs, origLength) ==
    IF ~inout THEN v
    ELSE LET locked == [v EXCEPT !.d.use_count = @ + 1]
             a == whileLoop(locked, ri, rcs)
             b == IF a.ret THEN a ELSE finalChunk(a, ri, rcs, origLength)
         IN  sharedPtrRelease(b)

\* a failure branch of the setup without its call of deleteIOInstance
setupFailed_noTeardown(v, ri, why) ==
    [return(sendPLDMRespMsg(v, ri, PLDM_ERROR, 0), <<>>) EXCEPT !.out = why]

\* a failure branch of the setup that hands the error response back as the
\* return value in place of sending it
setupFailed_returnsResponse(v, ri, why) ==
    LET b == deleteIOInstance(v)
    IN  [return(b, <<[cc |-> PLDM_ERROR, length |-> 0]>>) EXCEPT !.out = why]

\* the failure branches of the setup in transferAll
setupFailed(v, ri, why) ==
    LET a == sendPLDMRespMsg(v, ri, PLDM_ERROR, 0)
        b == deleteIOInstance(a)
    IN  [return(b, <<>>) EXCEPT !.out = why]

\* transferAll with a null intf
transferAllNull(v, ri, file) ==
    LET a == sendPLDMRespMsg(v, ri, PLDM_ERROR, 0)
    IN  [return(a, <<>>) EXCEPT !.fds = closeFd(@, file), !.out = "nullintf"]

\* transferAll with a DMA object; setup says which step of the setup fails
transferAll(v, ri, file, r, setup) ==
    LET a == setDMASourceFd(v, file)
        b == [a EXCEPT !.part = [length |-> r.length, offset |-> r.offset,
                                 address |-> r.address]]
        c == getNewXdmaFd(b, setup # "openfail")
    IN  IF c.d.xdmaFd < 0 THEN setupFailed(c, ri, "openfail")
        ELSE LET e == initTimer(c, setup # "timerfail")
             IN  IF ~e.d.timer THEN setupFailed(e, ri, "timerfail")
                 ELSE IF setup = "iofail" THEN setupFailed(e, ri, "iofail")
                 ELSE return(insertIOInstance(e, c.d.xdmaFd, IOEvents),
                             <<>>)

\* The command handler that serves a memory command: it opens the source
\* file, makes the DMA object, calls transferAll and returns, giving up its
\* reference to the object.
callTransferAll(v, ri, r, setup) ==
    LET file == LowestFree(v.fds)
        o == [v EXCEPT !.fds = openFd(@, file, v.s)]
    IN  IF setup = "nullintf" THEN transferAllNull(o, ri, file)
        ELSE sharedPtrRelease(transferAll(
                 [o EXCEPT !.d = NewDMA(U32Of(r.length))],
                 ri, file, r, setup))

\* the command handler without the validation of the length
rwFileMemory_noValidation(v, ri, r, setup) == callTransferAll(v, ri, r, setup)

\* The command handler of a memory command with the validation of the
\* length in front: a length below dma::minSize is answered at once with
\* PLDM_ERROR_INVALID_LENGTH, before the file is opened or a DMA object made.
rwFileMemory(v, ri, r, setup) ==
    IF r.length < minSize
    THEN return(v, <<[cc |-> PLDM_ERROR_INVALID_LENGTH]>>)
    ELSE callTransferAll(v, ri, r, setup)

(* --------------------- softoff/main.cpp: main --------------------------- *)
\* the words of a command line: the option in its two spellings, options
\* the program does not have, and a word that is no option
ArgWords == {"-t", "--notimeout", "-x", "--bogus", "file"}
Argvs == UNION {[1..n -> ArgWords] : n \in 0..MaxArgs}

\* the first call of getopt_long(argc, argv, "t", long_options, nullptr):
\* words that are no options are passed over; the first option is answered
\* with 't' when it is -t or --notimeout and with '?' when it is unknown;
\* -1 when there is no option
RECURSIVE getopt_long(_)
getopt_long(argv) ==
    IF argv = <<>> THEN "-1"
    ELSE IF Head(argv) \in {"-t", "--notimeout"} THEN "t"
    ELSE IF Head(argv) \in {"-x", "--bogus"} THEN "?"
    ELSE getopt_long(Tail(argv))

\* what the SoftPowerOff object answers in one run: isError and isCompleted
\* after construction, hostSoftOff returning non-zero, isTimerExpired and
\* isReceiveResponse after it, and whether the CreateDump call throws
SoftPowerOffs == [isError : BOOLEAN, isCompleted : BOOLEAN,
                  hostSoftOff : BOOLEAN, isTimerExpired : BOOLEAN,
                  isReceiveResponse : BOOLEAN, dumpThrows : BOOLEAN]

\* no run yet
NotRun == [ran |-> FALSE, argv |-> <<>>,
           sp |-> [isError |-> FALSE, isCompleted |-> FALSE,
                   hostSoftOff |-> FALSE, isTimerExpired |-> FALSE,
                   isReceiveResponse |-> FALSE, dumpThrows |-> FALSE],
           argflag |-> "-1", noTimeOut |-> FALSE, code |-> 0,
           constructed |-> FALSE, requested |-> FALSE, reported |-> FALSE,
           dump |-> "none"]

\* the CreateDump method call sent with call_noreply, inside try/catch
createDump(m, sp) ==
    [m EXCEPT !.reported = TRUE,
              !.dump = IF sp.dumpThrows THEN "threw" ELSE "sent"]

\* main ending with the value code, by return or by exit()
exit(m, code) == [m EXCEPT !.code = code]

\* main with the dump requested whenever the timer expired, and the
\* exception of a dump request that fails ending the program
main_dumpOnAnyExpiry(argv, sp) ==
    LET argflag == getopt_long(argv)
        a == [NotRun EXCEPT !.ran = TRUE, !.argv = argv, !.sp = sp,
                            !.argflag = argflag,
                            !.noTimeOut = (argflag = "t")]
        b == [a EXCEPT !.constructed = TRUE]
        c == [b EXCEPT !.requested = TRUE]
    IN  IF argflag \notin {"t", "-1"} THEN exit(a, EXIT_FAILURE)
        ELSE IF sp.isError THEN exit(b, -1)
        ELSE IF sp.isCompleted THEN exit(b, 0)
        ELSE IF sp.hostSoftOff THEN exit(c, -1)
        ELSE IF sp.isTimerExpired
             THEN exit(createDump(c, sp),
                       IF sp.dumpThrows THEN EXIT_FAILURE ELSE -1)
        ELSE exit(c, 0)

\* main with exit(-1) in the default branch of the switch
main_optionFailsLikeTheRest(argv, sp) ==
    LET argflag == getopt_long(argv)
        a == [NotRun EXCEPT !.ran = TRUE, !.argv = argv, !.sp = sp,
                            !.argflag = argflag,
                            !.noTimeOut = (argflag = "t")]
        b == [a EXCEPT !.constructed = TRUE]
        c == [b EXCEPT !.requested = TRUE]
    IN  IF argflag \notin {"t", "-1"} THEN exit(a, -1)
        ELSE IF sp.isError THEN exit(b, -1)
        ELSE IF sp.isCompleted THEN exit(b, 0)
        ELSE IF sp.hostSoftOff THEN exit(c, -1)
        ELSE IF sp.isTimerExpired /\ sp.isReceiveResponse
             THEN exit(createDump(c, sp), -1)
        ELSE exit(c, 0)

\* main(argc, argv)
main(argv, sp) ==
    LET argflag == getopt_long(argv)
        a == [NotRun EXCEPT !.ran = TRUE, !.argv = argv, !.sp = sp,
                            !.argflag = argflag,
                            !.noTimeOut = (argflag = "t")]
        b == [a EXCEPT !.constructed = TRUE]
        c == [b EXCEPT !.requested = TRUE]
    IN  IF argflag \notin {"t", "-1"} THEN exit(a, EXIT_FAILURE)
        ELSE IF sp.isError THEN exit(b, -1)
        ELSE IF sp.isCompleted THEN exit(b, 0)
        ELSE IF sp.hostSoftOff THEN exit(c, -1)
        ELSE IF sp.isTimerExpired /\ sp.isReceiveResponse
             THEN exit(createDump(c, sp), -1)
        ELSE exit(c, 0)

(* ------------- oem_ibm::Handler: the match codLicensesubs -------------- *)
\* the property names a signal of the license object may carry, in the
\* order of std::string, which is the order std::map iterates in
PropertyOrder == <<"LicenseActivationStatus", "LicenseString", "LicenseType">>
PropertyNames == {PropertyOrder[i] : i \in DOMAIN PropertyOrder}
\* the values of a property; a license string may be empty
PropertyValues(name) ==
    CASE name = "LicenseString" -> {"", "lic1", "lic2"}
      [] name = "LicenseActivationStatus" -> {"Pending", "Activated"}
      [] OTHER -> {"CoD"}
\* std::map<dbus::Property, PropertyValue> props as read from a signal
Props ==
    UNION {{p \in [names -> UNION {PropertyValues(n) : n \in names}] :
               \A n \in names : p[n] \in PropertyValues(n)} :
           names \in SUBSET PropertyNames}
\* the keys of props in the order of iteration
KeysOf(props) == SelectSeq(PropertyOrder, LAMBDA n : n \in DOMAIN props)

\* the for loop of the match callback over the properties left in ks; sent
\* is what newLicFileAvailable has been called with. Both arms of the body
\* leave the loop: the arm of LicenseString by return or break, and any
\* other property by the break that ends the body.
forProps(props, ks, sent) ==
    IF ks = <<>> THEN sent
    ELSE IF Head(ks) = "LicenseString"
         THEN LET licenseStr == props["LicenseString"]
              IN  IF licenseStr = "" THEN sent
                  ELSE Append(sent, licenseStr)
         ELSE sent

\* the callback of codLicensesubs for one signal
codLicensesubs(props) == forProps(props, KeysOf(props), <<>>)

(* ------ oem_ibm::Handler: the matches resDumpMatcher, vmiCertMatcher ----- *)
resDumpEntry == "com.ibm.Dump.Entry.Resource"
certAuthority == "xyz.openbmc_project.PLDM.Provider.Certs.Authority.CSR"
\* the interface names an InterfacesAdded signal may carry, and the property
\* names of an interface, each in the order of std::string
InterfaceOrder == <<resDumpEntry, "xyz.openbmc_project.Dump.Entry",
                    certAuthority>>
InterfaceNames == {InterfaceOrder[i] : i \in DOMAIN InterfaceOrder}
IfacePropertyOrder == <<"CSR", "Password", "Size", "VSPString">>
\* the properties an interface is added with
IfaceProperties(iface) ==
    CASE iface = resDumpEntry -> {"Password", "Size", "VSPString"}
      [] iface = certAuthority -> {"CSR"}
      [] OTHER -> {"Size"}
\* std::variant<std::string, uint32_t>: which alternative it holds, and the
\* value of that alternative
Variants == {[holds |-> "string", s |-> "", u |-> 0],
             [holds |-> "string", s |-> "text", u |-> 0],
             [holds |-> "uint32_t", s |-> "", u |-> 7]}
\* the property maps of an interface
IfaceProps(iface) ==
    UNION {[names -> IF iface = "xyz.openbmc_project.Dump.Entry"
                     THEN {[holds |-> "uint32_t", s |-> "", u |-> 7]}
                     ELSE Variants] :
           names \in SUBSET IfaceProperties(iface)}
\* the interfaces of a signal under the path of a match: the interface the
\* match looks for, or not, beside another interface, or not
InterfacesOf(names) ==
    UNION {{m \in [ns -> UNION {IfaceProps(n) : n \in ns}] :
               \A n \in ns : m[n] \in IfaceProps(n)} :
           ns \in SUBSET names}
DumpInterfaces ==
    InterfacesOf({resDumpEntry, "xyz.openbmc_project.Dump.Entry"})
CertInterfaces ==
    InterfacesOf({certAuthority, "xyz.openbmc_project.Dump.Entry"})
\* the keys of a map in the order of iteration
SortedKeys(map, order) == SelectSeq(order, LAMBDA n : n \in DOMAIN map)

\* dbusToFileHandlers.emplace_back(make_unique<DbusToFileHandler>(..., path,
\* handler))->notify(args): h holds the vector, the notifications started
\* so far, and whether the callback ended by an exception
startOn(h, path, notify, args) ==
    [h EXCEPT !.handlers = Append(@, [path |-> path]),
              !.started = Append(@, [notify |-> notify, args |-> args])]
\* std::get<std::string> of a variant that holds a uint32_t
badVariantAccess(h) == [h EXCEPT !.threw = TRUE]

\* the inner loop of resDumpMatcher over the properties left in ks; acc
\* holds the locals vspstring and password, and whether std::get threw
\* std::bad_variant_access
RECURSIVE forDumpProperties(_, _, _)
forDumpProperties(props, ks, acc) ==
    IF ks = <<>> THEN acc
    ELSE LET name == Head(ks)
             value == props[name]
         IN  IF name \in {"VSPString", "Password"}
             THEN IF value.holds # "string" THEN [acc EXCEPT !.threw = TRUE]
                  ELSE forDumpProperties(
                           props, Tail(ks),
                           IF name = "VSPString"
                           THEN [acc EXCEPT !.vspstring = value.s]
                           ELSE [acc EXCEPT !.password = value.s])
             ELSE forDumpProperties(props, Tail(ks), acc)

\* the loop of resDumpMatcher leaving at the first interface of any name
forDumpInterfaces_anyInterface(h, path, interfaces, ks) ==
    IF ks = <<>> THEN h
    ELSE LET props == interfaces[Head(ks)]
             acc == forDumpProperties(
                        props, SortedKeys(props, IfacePropertyOrder),
                        [vspstring |-> "", password |-> "", threw |-> FALSE])
         IN  IF acc.threw THEN badVariantAccess(h)
             ELSE startOn(h, path, "processNewResourceDump",
                          <<acc.vspstring, acc.password>>)

\* the loop of resDumpMatcher over the interfaces left in ks: at the
\* interface resDumpEntry a DbusToFileHandler is appended and
\* processNewResourceDump started on it, and the loop is left
RECURSIVE forDumpInterfaces(_, _, _, _)
forDumpInterfaces(h, path, interfaces, ks) ==
    IF ks = <<>> THEN h
    ELSE IF Head(ks) = resDumpEntry
    THEN LET props == interfaces[Head(ks)]
             acc == forDumpProperties(
                        props, SortedKeys(props, IfacePropertyOrder),
                        [vspstring |-> "", password |-> "", threw |-> FALSE])
         IN  IF acc.threw THEN badVariantAccess(h)
             ELSE startOn(h, path, "processNewResourceDump",
                          <<acc.vspstring, acc.password>>)
    ELSE forDumpInterfaces(h, path, interfaces, Tail(ks))

\* the callback of resDumpMatcher for one signal
resDumpMatcher(h, path, interfaces) ==
    forDumpInterfaces(h, path, interfaces,
                      SortedKeys(interfaces, InterfaceOrder))

\* the file name of an object path: what follows its last '/'
filename(path) ==
    CASE path = "/xyz/openbmc_project/certs/ca/1" -> "1"
      [] path = "/xyz/openbmc_project/certs/ca/entry/2" -> "2"
      [] OTHER -> ""

\* the inner loop of vmiCertMatcher: at the property CSR a DbusToFileHandler
\* is appended and newCsrFileAvailable started on it with the file name of
\* the path, and the loop is left
RECURSIVE forCertProperties(_, _, _, _)
forCertProperties(h, path, props, ks) ==
    IF ks = <<>> THEN h
    ELSE IF Head(ks) = "CSR"
    THEN IF props["CSR"].holds # "string" THEN badVariantAccess(h)
         ELSE startOn(h, path, "newCsrFileAvailable",
                      <<props["CSR"].s, filename(path)>>)
    ELSE forCertProperties(h, path, props, Tail(ks))

\* the loop of vmiCertMatcher over the interfaces left in ks
RECURSIVE forCertInterfaces(_, _, _, _)
forCertInterfaces(h, path, interfaces, ks) ==
    IF ks = <<>> THEN h
    ELSE IF Head(ks) = certAuthority
    THEN forCertProperties(h, path, interfaces[Head(ks)],
                           SortedKeys(interfaces[Head(ks)],
                                      IfacePropertyOrder))
    ELSE forCertInterfaces(h, path, interfaces, Tail(ks))

\* the callback of vmiCertMatcher for one signal
vmiCertMatcher(h, path, interfaces) ==
    forCertInterfaces(h, path, interfaces,
                      SortedKeys(interfaces, InterfaceOrder))

\* the object paths of the signals
DumpPaths == {"/xyz/openbmc_project/dump/resource/entry/1"}
CertPaths == {"/xyz/openbmc_project/certs/ca/1",
              "/xyz/openbmc_project/certs/ca/entry/2"}

(* --------------------- host-bmc/dbus: CustomDBus ----------------------- *)
\* object paths, location codes and microcode levels (uint32_t) of the
\* callers
Paths == {"/abc/def", "/abc/xyz"}
LocationCodes == {"testLocationCode", "U78DA.ND1"}
MicroCodes == {0, 32}

\* a map of CustomDBus given a value for a path, without the property set:
\* the object is made with the value when the map has none, and an object
\* that exists is left as it is
emplaceOnly(map, path, value) ==
    IF map[path] = <<>> THEN [map EXCEPT ![path] = <<value>>] ELSE map

\* a map of CustomDBus given a value for a path: the interface object of
\* the path is made when the map has none, and its property is set
emplaceAndSet(map, path, value) == [map EXCEPT ![path] = <<value>>]

\* CustomDBus::setLocationCode(path, value)
setLocationCode(c, path, value) ==
    [c EXCEPT !.location = emplaceAndSet(@, path, value)]

\* CustomDBus::getLocationCode(path): std::optional<std::string>, <<>> for
\* std::nullopt
getLocationCode(c, path) == c.location[path]

\* CustomDBus::setMicroCode(path, value)
setMicroCode(c, path, value) ==
    [c EXCEPT !.microCode = emplaceAndSet(@, path, value)]

\* CustomDBus::getMicroCode(path): std::optional<uint32_t>
getMicroCode(c, path) == c.microCode[path]

\* setOperationalStatus keeping the status of an object that exists
setOperationalStatus_firstWins(c, path, status) ==
    [c EXCEPT !.operationalStatus = emplaceOnly(@, path, status)]

\* CustomDBus::setOperationalStatus(path, status)
setOperationalStatus(c, path, status) ==
    [c EXCEPT !.operationalStatus = emplaceAndSet(@, path, status)]

\* CustomDBus::getOperationalStatus(path): bool, false for a path without
\* the interface
getOperationalStatus(c, path) ==
    IF c.operationalStatus[path] = <<>> THEN FALSE
    ELSE c.operationalStatus[path][1]

(* ------------ oem_ibm_platform::Handler: the match hostOffMatch ---------- *)
\* the values of CurrentHostState the callback tells apart
HostStateOff == "xyz.openbmc_project.State.Host.HostState.Off"
HostStateRunning == "xyz.openbmc_project.State.Host.HostState.Running"
HostStateTransitioningToOff ==
    "xyz.openbmc_project.State.Host.HostState.TransitioningToOff"
\* a value of CurrentHostState the callback has no branch for
HostStateQuiesced == "xyz.openbmc_project.State.Host.HostState.Quiesced"
\* the changed properties of a signal, as far as the callback looks at
\* them: whether CurrentHostState is among them, and its value, a string
\* or a value of another type of pldm::utils::PropertyValue
HostProps ==
    {[has |-> FALSE, value |-> [holds |-> "string", s |-> "", u |-> 0]]}
    \cup {[has |-> TRUE, value |-> [holds |-> "string", s |-> v, u |-> 0]] :
             v \in {HostStateOff, HostStateRunning,
                    HostStateTransitioningToOff, HostStateQuiesced}}
    \cup {[has |-> TRUE, value |-> [holds |-> "uint32_t", s |-> "", u |-> 7]]}

\* the handler as the callback of hostOffMatch sees it
PlatformHandler ==
    [hostOff |-> hostOff, hostTransitioningToOff |-> hostTransitioningToOff,
     setEventReceiverCnt |-> setEventReceiverCnt, timer |-> timer,
     watchDog |-> watchDog, licenseStatus |-> licenseStatus,
     threw |-> FALSE]

\* disableWatchDogTimer: the watchdog of the host is disabled
disableWatchDogTimer(h) == [h EXCEPT !.watchDog = FALSE]
\* startStopTimer(value): the surveillance timer is reset (true) or turned
\* off (false)
startStopTimer(h, value) == [h EXCEPT !.timer = value]
\* pldm::responder::utils::clearLicenseStatus
clearLicenseStatus(h) == [h EXCEPT !.licenseStatus = "Unknown"]

\* countSetEventReceiver
countSetEventReceiver(h) ==
    [h EXCEPT !.setEventReceiverCnt = h.setEventReceiverCnt + 1]

\* the callback with a Running branch that leaves hostTransitioningToOff
\* alone
hostOffMatch_runningKeepsTransition(h, props) ==
    IF ~props.has THEN h
    ELSE IF props.value.holds # "string" THEN [h EXCEPT !.threw = TRUE]
    ELSE LET propVal == props.value.s
         IN  IF propVal = HostStateOff
             THEN clearLicenseStatus(startStopTimer(disableWatchDogTimer(
                      [h EXCEPT !.hostOff = TRUE,
                                !.setEventReceiverCnt = 0]), FALSE))
             ELSE IF propVal = HostStateRunning
             THEN [h EXCEPT !.hostOff = FALSE]
             ELSE IF propVal = HostStateTransitioningToOff
             THEN [h EXCEPT !.hostTransitioningToOff = TRUE]
             ELSE h

\* the callback with an Off branch that leaves setEventReceiverCnt alone
hostOffMatch_offKeepsCount(h, props) ==
    IF ~props.has THEN h
    ELSE IF props.value.holds # "string" THEN [h EXCEPT !.threw = TRUE]
    ELSE LET propVal == props.value.s
         IN  IF propVal = HostStateOff
             THEN clearLicenseStatus(startStopTimer(disableWatchDogTimer(
                      [h EXCEPT !.hostOff = TRUE]), FALSE))
             ELSE IF propVal = HostStateRunning
             THEN [h EXCEPT !.hostOff = FALSE,
                            !.hostTransitioningToOff = FALSE]
             ELSE IF propVal = HostStateTransitioningToOff
             THEN [h EXCEPT !.hostTransitioningToOff = TRUE]
             ELSE h

\* the callback of hostOffMatch: props.find("CurrentHostState"), then
\* std::get<std::string>, which throws std::bad_variant_access on a value
\* of another type, then the three branches on the string
hostOffMatch(h, props) ==
    IF ~props.has THEN h
    ELSE IF props.value.holds # "string" THEN [h EXCEPT !.threw = TRUE]
    ELSE LET propVal == props.value.s
         IN  IF propVal = HostStateOff
             THEN clearLicenseStatus(startStopTimer(disableWatchDogTimer(
                      [h EXCEPT !.hostOff = TRUE,
                                !.setEventReceiverCnt = 0]), FALSE))
             ELSE IF propVal = HostStateRunning
             THEN [h EXCEPT !.hostOff = FALSE,
                            !.hostTransitioningToOff = FALSE]
             ELSE IF propVal = HostStateTransitioningToOff
             THEN [h EXCEPT !.hostTransitioningToOff = TRUE]
             ELSE h

(* --------- oem_ibm_platform::Handler: the match powerStateOffMatch ------- *)
PowerStateOff == "xyz.openbmc_project.State.Chassis.PowerState.Off"
PowerStateOn == "xyz.openbmc_project.State.Chassis.PowerState.On"
\* the values of the PowerState decorator of an object
DecoratorOff == "xyz.openbmc_project.State.Decorator.PowerState.State.Off"
DecoratorOn == "xyz.openbmc_project.State.Decorator.PowerState.State.On"
\* the objects under the motherboard that may carry the decorator, in the
\* order of their paths
SlotOrder == <<"pcieslot0", "pcieslot1", "pcieslot2">>
SlotPaths == {SlotOrder[i] : i \in DOMAIN SlotOrder}
\* the changed properties of a signal: whether CurrentPowerState is among
\* them, and its value
PowerProps ==
    {[has |-> FALSE, value |-> [holds |-> "string", s |-> "", u |-> 0]]}
    \cup {[has |-> TRUE, value |-> [holds |-> "string", s |-> v, u |-> 0]] :
             v \in {PowerStateOff, PowerStateOn}}
    \cup {[has |-> TRUE, value |-> [holds |-> "uint32_t", s |-> "", u |-> 7]]}
\* what DBusHandler().getSubtree may do: answer with the objects that carry
\* the decorator, a map keyed by object path, or throw
GetSubTreeResponses ==
    {[threw |-> FALSE, paths |-> ps] : ps \in SUBSET SlotPaths}
    \cup {[threw |-> TRUE, paths |-> {}]}

\* the run of a callback of powerStateOffMatch before its first step
PowerRun(props, response, fails) ==
    [props |-> props, response |-> response, fails |-> fails,
     slots |-> slotPower, attempts |-> <<>>, errors |-> <<>>,
     threw |-> FALSE]

\* DBusHandler().setDbusProperty inside the try block: the call is made for
\* objPath and either sets the property or throws, and the catch block logs
\* the error
setDbusProperty(c, objPath) ==
    IF objPath \in c.fails
    THEN [c EXCEPT !.attempts = Append(c.attempts, objPath),
                   !.errors = Append(c.errors, objPath)]
    ELSE [c EXCEPT !.attempts = Append(c.attempts, objPath),
                   !.slots = [c.slots EXCEPT ![objPath] = DecoratorOff]]

\* a setDbusProperty whose exception is not caught
setDbusProperty_uncaught(c, objPath) ==
    IF objPath \in c.fails
    THEN [c EXCEPT !.attempts = Append(c.attempts, objPath),
                   !.threw = TRUE]
    ELSE [c EXCEPT !.attempts = Append(c.attempts, objPath),
                   !.slots = [c.slots EXCEPT ![objPath] = DecoratorOff]]

\* the loop over the response without the try block: the first failure
\* ends it
RECURSIVE forSlots_noTry(_, _)
forSlots_noTry(c, ks) ==
    IF ks = <<>> \/ c.threw THEN c
    ELSE forSlots_noTry(setDbusProperty_uncaught(c, Head(ks)), Tail(ks))

\* for (const auto& [objPath, serviceMap] : response)
RECURSIVE forSlots(_, _)
forSlots(c, ks) ==
    IF ks = <<>> THEN c
    ELSE forSlots(setDbusProperty(c, Head(ks)), Tail(ks))

\* the callback of powerStateOffMatch
powerStateOffMatch(c) ==
    IF ~c.props.has THEN c
    ELSE IF c.props.value.holds # "string" THEN [c EXCEPT !.threw = TRUE]
    ELSE IF c.props.value.s # PowerStateOff THEN c
    ELSE IF c.response.threw THEN [c EXCEPT !.threw = TRUE]
    ELSE forSlots(c, SelectSeq(SlotOrder,
                               LAMBDA p : p \in c.response.paths))

\* the handler after construction, and the objects around it
InitPlatform ==
    /\ hostOff = TRUE
    /\ hostTransitioningToOff = TRUE
    /\ setEventReceiverCnt = 0
    /\ timer = FALSE
    /\ watchDog = FALSE
    /\ licenseStatus = "Unknown"
    /\ hostSignals = <<>>
    /\ slotPower = [p \in SlotPaths |-> DecoratorOn]
    /\ powerSignal =
           [props |-> [has |-> FALSE,
                       value |-> [holds |-> "string", s |-> "", u |-> 0]],
            response |-> [threw |-> FALSE, paths |-> {}], fails |-> {},
            slots |-> [p \in SlotPaths |-> DecoratorOn],
            attempts |-> <<>>, errors |-> <<>>, threw |-> FALSE]

(* ------------------------------- actions ------------------------------- *)
TypeOK ==
    /\ started \in 0..NumSessions
    /\ respInterface \in [Sessions -> BOOLEAN]
    /\ ioSrc \subseteq Sessions
    /\ timerSrc \subseteq Sessions
    /\ fdOwner \in [FdSpace -> Sessions \cup {Closed, Process}]
    /\ outcome \in [Sessions -> Outcomes]
    /\ \A s \in Sessions : dma[s].state \in {"none", "alive", "destroyed"}
    /\ mapped \in [Sessions -> 0..MaxChunks]
    /\ key \in [Sessions -> {0} \cup Keys]
    /\ \A s \in Sessions : Len(sentKeys[s]) = Len(responses[s])
    /\ \A s \in Sessions : returned[s].done \in BOOLEAN
    /\ revents \subseteq EventFlags
    /\ dispatched \in BOOLEAN
    /\ softoff.ran \in BOOLEAN /\ softoff.code \in {0, -1, EXIT_FAILURE}
    /\ softoff.argflag \in {"t", "?", "-1"}
    /\ softoff.dump \in {"none", "sent", "threw"}
    /\ Len(license) + Len(signals) <= MaxSignals
    /\ Len(dbusToFileHandlers) <= MaxSignals
    /\ \A p \in Paths : Len(customDBus.location[p]) <= 1
    /\ dbusCall.path \in Paths \cup {""}
    /\ pageSize \in PageSizes
    /\ made.m_length \in U32 /\ made.pageAlignedLength \in U32
    /\ hostOff \in BOOLEAN /\ hostTransitioningToOff \in BOOLEAN
    /\ setEventReceiverCnt \in 0..MaxCount
    /\ timer \in BOOLEAN /\ watchDog \in BOOLEAN
    /\ licenseStatus \in {"Unknown", "Active"}
    /\ Len(hostSignals) <= MaxHostSignals
    /\ slotPower \in [SlotPaths -> {DecoratorOn, DecoratorOff}]
    /\ Len(powerSignal.attempts) <= Len(SlotOrder)

InitTransfers ==
    /\ started = 0
    /\ req = [s \in Sessions |-> [offset |-> 0, length |-> 0, address |-> 0]]
    /\ respInterface = [s \in Sessions |-> FALSE]
    /\ dma = [s \in Sessions |-> NoDMA]
    /\ part = [length |-> 0, offset |-> 0, address |-> 0]
    /\ ioSrc = {}
    /\ timerSrc = {}
    /\ \E stdin \in {Closed, Process} :
          fdOwner = [f \in FdSpace |-> IF f = 0 THEN stdin ELSE Closed]
    /\ responses = [s \in Sessions |-> <<>>]
    /\ chunks = [s \in Sessions |-> <<>>]
    /\ outcome = [s \in Sessions |-> "none"]
    /\ wakes = [s \in Sessions |-> 0]
    /\ mapped = [s \in Sessions |-> 0]
    /\ key = [s \in Sessions |-> 0]
    /\ sentKeys = [s \in Sessions |-> <<>>]
    /\ returned = [s \in Sessions |-> [done |-> FALSE, response |-> <<>>]]
    /\ made = NoDMA
    /\ revents = {}
    /\ dispatched = FALSE
    /\ softoff = NotRun
    /\ license = <<>>
    /\ signals = <<>>
    /\ dbusToFileHandlers = <<>>
    /\ notifications = <<>>
    /\ customDBus = [location |-> [p \in Paths |-> <<>>],
                     microCode |-> [p \in Paths |-> <<>>],
                     operationalStatus |-> [p \in Paths |-> <<>>]]
    /\ dbusCall = [op |-> "none", path |-> "", value |-> "",
                   before |-> <<>>]
    /\ InitPlatform

\* the transfers run on a system of 4096-byte pages
Init == InitTransfers /\ pageSize = 4096

\* how the transferDataHost calls of one callback run go, call by call: a
\* run on a cursor of the given length makes at most one call per maxSize
\* and one for the rest; a run that returns at once makes no call
RcChoices(inout, length) ==
    {rcs \in [1..MaxChunks -> RcKinds] :
        \A i \in 1..MaxChunks :
            (~inout \/ (i - 1) * maxSize >= length) => rcs[i] = "full"}

\* a memory command arrives and its handler calls transferAll
Start(s) ==
    /\ s = started + 1
    /\ LowestFree(fdOwner) >= 0
    /\ \E ri \in BOOLEAN, setup \in SetupKinds, r \in Requests :
          /\ started' = s
          /\ req' = [req EXCEPT ![s] = r]
          /\ respInterface' = [respInterface EXCEPT ![s] = ri]
          /\ key' = [key EXCEPT ![s] = s]
          /\ Commit(s, callTransferAll([View(s) EXCEPT !.key = s], ri, r,
                                       setup))
    /\ UNCHANGED <<wakes, pageVars, logVars, otherVars>>

\* a memory command of any length arrives with a key of the transport's
\* and its handler runs
Arrive(s) ==
    /\ s = started + 1
    /\ LowestFree(fdOwner) >= 0
    /\ \E ri \in BOOLEAN, setup \in SetupKinds,
          r \in Requests \cup ShortRequests, k \in Keys :
          /\ started' = s
          /\ req' = [req EXCEPT ![s] = r]
          /\ respInterface' = [respInterface EXCEPT ![s] = ri]
          /\ key' = [key EXCEPT ![s] = k]
          /\ Commit(s, rwFileMemory([View(s) EXCEPT !.key = k], ri, r,
                                    setup))
    /\ UNCHANGED <<wakes, pageVars, logVars, otherVars>>

\* the event loop dispatches the IO source of s with the event mask mask
Dispatch(s, mask) ==
    /\ s \in ioSrc
    /\ dma[s].state = "alive"
    /\ wakes[s] < MaxWakes
    /\ LET inout == mask \cap IOEvents # {}
       IN  \E rcs \in RcChoices(inout, part.length) :
              /\ wakes' = [wakes EXCEPT ![s] = IF inout THEN @ + 1 ELSE @]
              /\ Commit(s, callback(View(s), respInterface[s], inout, rcs,
                                    req[s].length))
    /\ UNCHANGED <<started, req, respInterface, key, pageVars, otherVars>>

\* a readiness event of s, its mask not recorded
Readiness(s) ==
    \E mask \in {{}, IOEvents} : Dispatch(s, mask) /\ UNCHANGED logVars

\* a readiness event of s with any mask, the mask recorded
ReadinessSeen(s) ==
    \E mask \in SUBSET EventFlags \ {{}} :
        Dispatch(s, mask) /\ revents' = mask /\ dispatched' = ~dispatched

\* the event loop dispatches the Timer of s; the closure's reference to the
\* object is released when the deleted Timer's closure is destroyed
TimerFire(s) ==
    /\ s \in timerSrc
    /\ dma[s].state = "alive"
    /\ LET a == timerCb(View(s), respInterface[s])
           b == IF a.d.use_count = 0 THEN Destructor(a) ELSE a
       IN  Commit(s, b)
    /\ UNCHANGED <<started, req, respInterface, wakes, key, pageVars,
                   logVars, otherVars>>

Next == \E s \in Sessions : Start(s) \/ Readiness(s) \/ TimerFire(s)

Spec == Init /\ [][Next]_vars

\* One session under its watchdog: the timers of the event loop fire, so a
\* session whose Timer exists is eventually dispatched its timerCb.
NextWatchdog == Start(1) \/ Readiness(1) \/ TimerFire(1)

WatchdogSpec == Init /\ [][NextWatchdog]_vars /\ WF_vars(TimerFire(1))

\* One command as the transport delivers it, and its events as the event
\* loop delivers them: a request of any length under any key, readiness
\* events of any mask.
NextDispatch == Arrive(1) \/ ReadinessSeen(1) \/ TimerFire(1)

DispatchSpec == Init /\ [][NextDispatch]_vars

\* The constructor on its own, on a system of either page size: a DMA
\* object is made for a transfer length.
PageInit == InitTransfers /\ pageSize \in PageSizes

Construct(length) ==
    /\ made' = NewDMA(length)
    /\ UNCHANGED <<started, req, respInterface, dma, part, ioSrc, timerSrc,
                   fdOwner, responses, chunks, outcome, wakes, mapped, key,
                   sentKeys, returned, pageSize, logVars, otherVars>>

PageNext == \E length \in CtorLengths : Construct(length)

PageSpec == PageInit /\ [][PageNext]_vars

\* the soft-off program is run, once
RunMain ==
    /\ ~softoff.ran
    /\ \E argv \in Argvs, sp \in SoftPowerOffs :
          softoff' = main(argv, sp)
    /\ UNCHANGED <<transferVars, pageVars, logVars, matchVars, dbusVars,
                   platformVars>>

SoftOffSpec == Init /\ [][RunMain]_vars

\* what the callback of a match works on
Handlers == [handlers |-> dbusToFileHandlers, started |-> notifications,
             threw |-> FALSE]

\* a PropertiesChanged signal of the license object arrives; the path of
\* the callback is a local that is never given a value
PropertiesChanged ==
    /\ Len(license) + Len(signals) < MaxSignals
    /\ \E props \in Props :
          LET sent == codLicensesubs(props)
              h == IF sent = <<>> THEN Handlers
                   ELSE startOn(Handlers, "", "newLicFileAvailable", sent)
          IN  /\ license' = Append(license, [props |-> props, sent |-> sent])
              /\ dbusToFileHandlers' = h.handlers
              /\ notifications' = h.started
    /\ UNCHANGED <<transferVars, pageVars, logVars, softoffVars, dbusVars,
                   platformVars, signals>>

LicenseSpec == Init /\ [][PropertiesChanged]_vars

\* an InterfacesAdded signal under dumpObjPath arrives
ResourceDumpAdded ==
    /\ Len(license) + Len(signals) < MaxSignals
    /\ \E path \in DumpPaths, interfaces \in DumpInterfaces :
          LET h == resDumpMatcher(Handlers, path, interfaces)
          IN  /\ dbusToFileHandlers' = h.handlers
              /\ notifications' = h.started
              /\ signals' = Append(signals, [match |-> "resDumpMatcher",
                                             path |-> path,
                                             interfaces |-> interfaces,
                                             threw |-> h.threw])
    /\ UNCHANGED <<transferVars, pageVars, logVars, softoffVars, dbusVars,
                   platformVars, license>>

\* an InterfacesAdded signal under certObjPath arrives
CertAdded ==
    /\ Len(license) + Len(signals) < MaxSignals
    /\ \E path \in CertPaths, interfaces \in CertInterfaces :
          LET h == vmiCertMatcher(Handlers, path, interfaces)
          IN  /\ dbusToFileHandlers' = h.handlers
              /\ notifications' = h.started
              /\ signals' = Append(signals, [match |-> "vmiCertMatcher",
                                             path |-> path,
                                             interfaces |-> interfaces,
                                             threw |-> h.threw])
    /\ UNCHANGED <<transferVars, pageVars, logVars, softoffVars, dbusVars,
                   platformVars, license>>

\* the signals of the three matches of oem_ibm::Handler, in any order
NextSignals == ResourceDumpAdded \/ CertAdded \/ PropertiesChanged

SignalSpec == Init /\ [][NextSignals]_vars

\* what the setters of CustomDBus leave alone
dbusFrame ==
    UNCHANGED <<transferVars, pageVars, logVars, softoffVars, matchVars,
                platformVars>>

\* a caller sets the location code of an object path
SetLocationCode ==
    /\ \E path \in Paths, value \in LocationCodes :
          /\ customDBus' = setLocationCode(customDBus, path, value)
          /\ dbusCall' = [op |-> "setLocationCode", path |-> path,
                          value |-> value,
                          before |-> customDBus.location[path]]
    /\ dbusFrame

\* a caller sets the microcode level of an object path
SetMicroCode ==
    /\ \E path \in Paths, value \in MicroCodes :
          /\ customDBus' = setMicroCode(customDBus, path, value)
          /\ dbusCall' = [op |-> "setMicroCode", path |-> path,
                          value |-> value,
                          before |-> customDBus.microCode[path]]
    /\ dbusFrame

\* a caller sets the operational status of an object path
SetOperationalStatus ==
    /\ \E path \in Paths, status \in BOOLEAN :
          /\ customDBus' = setOperationalStatus(customDBus, path, status)
          /\ dbusCall' = [op |-> "setOperationalStatus", path |-> path,
                          value |-> status,
                          before |-> customDBus.operationalStatus[path]]
    /\ dbusFrame

NextDBus == SetLocationCode \/ SetMicroCode \/ SetOperationalStatus

DBusSpec == Init /\ [][NextDBus]_vars

\* a PropertiesChanged signal of the host state arrives
HostStateChanged ==
    /\ Len(hostSignals) < MaxHostSignals
    /\ \E props \in HostProps :
          LET h == hostOffMatch(PlatformHandler, props)
          IN  /\ hostOff' = h.hostOff
              /\ hostTransitioningToOff' = h.hostTransitioningToOff
              /\ setEventReceiverCnt' = h.setEventReceiverCnt
              /\ timer' = h.timer
              /\ watchDog' = h.watchDog
              /\ licenseStatus' = h.licenseStatus
              /\ hostSignals' = Append(hostSignals,
                                       [props |-> props, threw |-> h.threw,
                                        cnt |-> setEventReceiverCnt,
                                        timer |-> timer])
    /\ UNCHANGED <<transferVars, pageVars, logVars, softoffVars, matchVars,
                   dbusVars, chassisVars>>

\* a SetEventReceiver request is sent to the host and counted
CountSetEventReceiver ==
    /\ setEventReceiverCnt < MaxCount
    /\ setEventReceiverCnt' =
           countSetEventReceiver(PlatformHandler).setEventReceiverCnt
    /\ UNCHANGED <<transferVars, pageVars, logVars, softoffVars, matchVars,
                   dbusVars, chassisVars, hostOff, hostTransitioningToOff,
                   timer, watchDog, licenseStatus, hostSignals>>

\* the host comes up: it pings, which resets the surveillance timer, its
\* watchdog runs and its licenses are activated
HostComesUp ==
    /\ ~(timer /\ watchDog)
    /\ timer' = startStopTimer(PlatformHandler, TRUE).timer
    /\ watchDog' = TRUE
    /\ licenseStatus' = "Active"
    /\ UNCHANGED <<transferVars, pageVars, logVars, softoffVars, matchVars,
                   dbusVars, chassisVars, hostOff, hostTransitioningToOff,
                   setEventReceiverCnt, hostSignals>>

NextHost == HostStateChanged \/ CountSetEventReceiver \/ HostComesUp

HostSpec == Init /\ [][NextHost]_vars

\* a PropertiesChanged signal of the chassis state arrives
PowerStateChanged ==
    /\ \E props \in PowerProps, response \in GetSubTreeResponses,
          fails \in SUBSET SlotPaths :
          LET c == powerStateOffMatch(PowerRun(props, response, fails))
          IN  /\ slotPower' = c.slots
              /\ powerSignal' = c
    /\ UNCHANGED <<transferVars, pageVars, logVars, softoffVars, matchVars,
                   dbusVars, hostVars>>

ChassisSpec == Init /\ [][PowerStateChanged]_vars

(* ------------------------- notions of the claims ------------------------ *)
\* transferAll has been called for s
Called(s) == s <= started
\* s has ended on some path
Ended(s) == outcome[s] # "none"
\* the DMA object of an ended session has been destroyed (a call with a null
\* intf never had one)
Dropped(s) == Ended(s) /\ dma[s].state # "alive"
ErrorResponse == [cc |-> PLDM_ERROR, length |-> 0]
SuccessResponse(s) == [cc |-> PLDM_SUCCESS, length |-> req[s].length]
\* the chunks of s so far all returned their requested length
AllFull(s) == \A i \in DOMAIN chunks[s] : chunks[s][i].rc = chunks[s][i].length
RECURSIVE SumLength(_)
SumLength(cs) == IF cs = <<>> THEN 0 ELSE Head(cs).length + SumLength(Tail(cs))
\* the chunks a request of length len at offset off and address addr is
\* split into: maxSize each, the last one what remains
RECURSIVE Split(_, _, _)
Split(off, len, addr) ==
    IF len > maxSize
    THEN <<[offset |-> off, length |-> maxSize, address |-> addr]>>
         \o Split(off + maxSize, len - maxSize, addr + maxSize)
    ELSE <<[offset |-> off, length |-> len, address |-> addr]>>
\* chunk c without what it returned
Plan(c) == [offset |-> c.offset, length |-> c.length, address |-> c.address]
\* the chunk s submitted last
LastChunk(s) == chunks[s][Len(chunks[s])]
\* the number of chunks of a length: ceil(length / maxSize)
ChunksOf(length) == (length + maxSize - 1) \div maxSize

(* -------------------------------- claims -------------------------------- *)
\* C1: a session whose response interface is not null sends at most one
\* response at any time, and exactly one by the time its DMA object has been
\* destroyed (or, with a null intf, by the time transferAll has returned).
C1_ExactlyOneResponse ==
    \A s \in Sessions :
        (Called(s) /\ respInterface[s]) =>
            /\ Len(responses[s]) <= 1
            /\ Dropped(s) => Len(responses[s]) = 1
            /\ ~Ended(s) => responses[s] = <<>>

\* C1 witness: a session that took several chunks over two readiness events
\* has responded once and its object is destroyed
C1_Witness ==
    \E s \in Sessions :
        /\ respInterface[s] /\ Dropped(s) /\ wakes[s] = 2
        /\ Len(chunks[s]) >= 2 /\ Len(responses[s]) = 1

\* C2: once a session has sent its response, no later step sends another
\* response for it or submits another chunk for it.
C2_LateEventsDropped ==
    [][\A s \in Sessions :
          responses[s] # <<>> =>
              responses'[s] = responses[s] /\ chunks'[s] = chunks[s]]_vars

\* C2 witness: a session has sent the timeout response, nothing of it is
\* left in the event loop, and another session is still being served
C2_Witness ==
    \E s, o \in Sessions :
        /\ outcome[s] = "timeout" /\ responses[s] = <<ErrorResponse>>
        /\ s \notin ioSrc /\ s \notin timerSrc
        /\ o # s /\ o \in ioSrc /\ started = NumSessions

\* C3 as claimed: after the response of a terminal transition (success,
\* chunk failure, timeout) the responseReceived latch is true.
C3_LatchSetByEveryResponse ==
    \A s \in Sessions :
        (outcome[s] \in {"success", "chunkfail", "timeout"}
         /\ responses[s] # <<>>) => dma[s].responseReceived

\* C3 amended: the latch is set by the success transition only: it is true
\* exactly when the session has completed with PLDM_SUCCESS, and every error
\* response (chunk failure, timeout, setup failure) leaves it false.
C3_LatchMeansSuccess ==
    \A s \in Sessions :
        /\ dma[s].responseReceived <=> outcome[s] = "success"
        /\ \A i \in DOMAIN responses[s] :
              dma[s].responseReceived <=> responses[s][i].cc = PLDM_SUCCESS

\* C3 witness: one session has sent PLDM_SUCCESS with the latch set, another
\* has sent the timeout response with the latch still false
C3_Witness ==
    \E s, o \in Sessions :
        /\ outcome[s] = "success" /\ responses[s] = <<SuccessResponse(s)>>
        /\ dma[s].responseReceived
        /\ outcome[o] = "timeout" /\ responses[o] = <<ErrorResponse>>
        /\ ~dma[o].responseReceived

\* C4: every chunk a session submits lies in the range of its own request:
\* its file range is inside the request's and its host address is the
\* request's address advanced as far as its offset.
C4_ChunksOfOwnRequest ==
    \A s \in Sessions : \A i \in DOMAIN chunks[s] :
        LET c == chunks[s][i]
            r == req[s]
        IN  /\ r.offset <= c.offset
            /\ c.offset + c.length <= r.offset + r.length
            /\ c.address - r.address = c.offset - r.offset

\* C5: the first chunk of a session is at the request's offset and host
\* address, and every later chunk starts where the chunk before it ended, in
\* the file and in host memory.
C5_ChunksContiguous ==
    \A s \in Sessions : \A i \in DOMAIN chunks[s] :
        LET c == chunks[s][i]
        IN  IF i = 1
            THEN c.offset = req[s].offset /\ c.address = req[s].address
            ELSE LET b == chunks[s][i - 1]
                 IN  /\ c.offset = b.offset + b.length
                     /\ c.address = b.address + b.length

\* C6: the chunks of a session that completed sum to the request's length,
\* and a PLDM_SUCCESS response carries the request's length.
C6_LengthsSum ==
    \A s \in Sessions :
        outcome[s] = "success" =>
            /\ SumLength(chunks[s]) = req[s].length
            /\ \A i \in DOMAIN responses[s] :
                  responses[s][i] = SuccessResponse(s)

\* C7: a completed session whose chunks all returned their full length
\* submitted exactly the split of its request: chunks of maxSize and a last
\* chunk of what remains, ceil(length / maxSize) in number.
C7_SplitOfRequest ==
    \A s \in Sessions :
        (outcome[s] = "success" /\ AllFull(s)) =>
            [i \in DOMAIN chunks[s] |-> Plan(chunks[s][i])]
                = Split(req[s].offset, req[s].length, req[s].address)

\* C8 as claimed: a session whose chunk submission returned an error has
\* sent the one response PLDM_ERROR with length 0.
C8_FailureAlwaysResponds ==
    \A s \in Sessions :
        outcome[s] = "chunkfail" => responses[s] = <<ErrorResponse>>

\* C8 amended: a chunk that returns an error is the last chunk of its
\* session; the session sends the one response PLDM_ERROR with length 0 if
\* its response interface is not null and no response otherwise, its timer
\* and IO registration are gone, and no chunk is submitted for it afterwards.
C8_ChunkFailure ==
    /\ [](\A s \in Sessions :
            /\ \A i \in DOMAIN chunks[s] :
                  chunks[s][i].rc < 0 =>
                      i = Len(chunks[s]) /\ outcome[s] = "chunkfail"
            /\ outcome[s] = "chunkfail" =>
                  /\ chunks[s] # <<>> /\ chunks[s][Len(chunks[s])].rc < 0
                  /\ responses[s] = IF respInterface[s]
                                    THEN <<ErrorResponse>> ELSE <<>>
                  /\ s \notin ioSrc /\ s \notin timerSrc)
    /\ [][\A s \in Sessions :
            outcome[s] = "chunkfail" =>
                chunks'[s] = chunks[s] /\ responses'[s] = responses[s]]_vars

\* C8 witness: the second chunk of a session returned an error after the
\* first had succeeded, and the session sent its error response
C8_Witness ==
    \E s \in Sessions :
        /\ outcome[s] = "chunkfail" /\ Len(chunks[s]) = 2
        /\ chunks[s][1].rc = chunks[s][1].length /\ chunks[s][2].rc < 0
        /\ responses[s] = <<ErrorResponse>>
        /\ s \notin ioSrc /\ s \notin timerSrc

\* C9 as claimed: a session ended by its watchdog has sent the one response
\* PLDM_ERROR with length 0.
C9_TimeoutAlwaysResponds ==
    \A s \in Sessions :
        outcome[s] = "timeout" => responses[s] = <<ErrorResponse>>

\* C9 amended: a session ended by its watchdog has sent the one response
\* PLDM_ERROR with length 0 if its response interface is not null and no
\* response otherwise; and, the timers firing, every session that was started
\* with its timer armed eventually ends, having responded if its response
\* interface is not null.
C9_Watchdog ==
    /\ [](\A s \in Sessions :
            outcome[s] = "timeout" =>
                responses[s] = IF respInterface[s]
                               THEN <<ErrorResponse>> ELSE <<>>)
    /\ \A s \in Sessions :
          (s \in timerSrc) ~>
              (Ended(s) /\ (respInterface[s] => Len(responses[s]) = 1))

\* C9 witness: a session that never got a readiness event was ended by its
\* watchdog and sent the error response
C9_Witness ==
    \E s \in Sessions :
        /\ outcome[s] = "timeout" /\ wakes[s] = 0 /\ chunks[s] = <<>>
        /\ responses[s] = <<ErrorResponse>>

\* C10: after a session has ended and its DMA object is gone, no descriptor
\* is still held open by the session and neither its IO registration nor its
\* timer exists.
C10_AllReleased ==
    \A s \in Sessions :
        Dropped(s) =>
            /\ \A f \in FdSpace : fdOwner[f] # s
            /\ s \notin ioSrc /\ s \notin timerSrc

C12_DeviceUnavailable ==
    \A s \in Sessions :
        outcome[s] \in {"nullintf", "openfail"} =>
            /\ respInterface[s] => responses[s] = <<ErrorResponse>>
            /\ s \notin timerSrc /\ s \notin ioSrc
            /\ \A f \in FdSpace : fdOwner[f] # s

\* C13 as claimed: no readiness event submits more than one chunk for a
\* session.
C13_OneChunkPerEvent ==
    [][\A s \in Sessions : Len(chunks'[s]) <= Len(chunks[s]) + 1]_vars

\* C13 amended: a readiness event submits, back to back and without yielding,
\* all the chunks of what the chunk cursor holds: the chunks of maxSize and
\* then the rest, ceil(length / maxSize) in number, stopping early only at a
\* chunk that returns an error.
C13_AllChunksPerEvent ==
    [][\A s \in Sessions :
          chunks'[s] # chunks[s] =>
              LET n == Len(chunks'[s]) - Len(chunks[s])
                  new == SubSeq(chunks'[s], Len(chunks[s]) + 1, Len(chunks'[s]))
              IN  /\ n >= 1 /\ n <= ChunksOf(part.length)
                  /\ \A i \in 1..n : new[i].rc < 0 => i = n
                  /\ new[n].rc >= 0 => n = ChunksOf(part.length)
                  /\ [i \in 1..n |-> Plan(new[i])]
                        = SubSeq(Split(part.offset, part.length, part.address),
                                 1, n)]_vars

\* C13 witness: a request of MaxChunks chunks was served and completed in
\* one readiness event
C13_Witness ==
    \E s \in Sessions :
        /\ outcome[s] = "success" /\ wakes[s] = 1
        /\ Len(chunks[s]) = MaxChunks /\ req[s].length = MaxLen

C15_SetupFailureAlwaysResponds ==
    \A s \in Sessions :
        outcome[s] \in {"timerfail", "iofail"} =>
            responses[s] = <<ErrorResponse>>

\* C15 amended: a session that was started and has not ended holds a timer
\* of 20 seconds and then every second, and an IO registration on its DMA
\* descriptor for EPOLLIN and EPOLLOUT; a session whose timer or IO
\* registration could not be created has sent the one response PLDM_ERROR
\* with length 0 if its response interface is not null and no response
\* otherwise, and has neither a timer nor an IO registration.
C15_Setup ==
    \A s \in Sessions :
        /\ (Called(s) /\ ~Ended(s)) =>
              /\ dma[s].state = "alive"
              /\ s \in timerSrc /\ dma[s].timer
              /\ dma[s].timerArgs = [deadline |-> 20, interval |-> 1]
              /\ s \in ioSrc /\ dma[s].iotPtr
              /\ dma[s].xdmaFd >= 0 /\ fdOwner[dma[s].xdmaFd] = s
              /\ dma[s].ioArgs = [fd |-> dma[s].xdmaFd,
                                  events |-> {"EPOLLIN", "EPOLLOUT"}]
        /\ outcome[s] \in {"timerfail", "iofail"} =>
              /\ responses[s] = IF respInterface[s]
                                THEN <<ErrorResponse>> ELSE <<>>
              /\ s \notin timerSrc /\ s \notin ioSrc
              /\ ~dma[s].timer /\ ~dma[s].iotPtr /\ ~dma[s].iotPtrbc

\* C15 witness: one session is armed and registered while another has
\* answered the failure of its IO registration, its timer deleted again
C15_Witness ==
    \E s, o \in Sessions :
        /\ Called(s) /\ ~Ended(s) /\ s \in timerSrc /\ s \in ioSrc
        /\ outcome[o] = "iofail" /\ responses[o] = <<ErrorResponse>>
        /\ dma[o].timerArgs.deadline = 20 /\ o \notin timerSrc

\* C16: the pageAlignedLength of a constructed DMA object is the transfer
\* length rounded up to a whole number of pages, ceil(length / P) * P: a
\* multiple of P holding ceil(length / P) pages, and the length itself when
\* the length is a multiple of P.
C16_PageAligned ==
    made.state = "alive" =>
        LET len == made.m_length
            pal == made.pageAlignedLength
            pages == U32Div(len, pageSize)
                         + (IF U32Mod(len, pageSize) = 0 THEN 0 ELSE 1)
        IN  /\ U32Mod(pal, pageSize) = 0
            /\ U32Div(pal, pageSize) = pages
            /\ U32Mod(len, pageSize) = 0 => pal = len

\* C17: every response of a session that did not complete is PLDM_ERROR
\* with length 0, whatever ended the session (null interface, DMA open
\* failure, timer or IO setup failure, chunk failure, watchdog), and every
\* response that is not PLDM_SUCCESS is that same response.
C17_UniformErrors ==
    \A s \in Sessions : \A i \in DOMAIN responses[s] :
        /\ outcome[s] \in Outcomes \ {"none", "success"} =>
              responses[s][i] = [cc |-> PLDM_ERROR, length |-> 0]
        /\ responses[s][i].cc # PLDM_SUCCESS =>
              responses[s][i] = [cc |-> PLDM_ERROR, length |-> 0]

\* C17 witness: a session ended by its watchdog and a session ended by a
\* chunk error have sent the same response
C17_Witness ==
    \E s, o \in Sessions :
        /\ outcome[s] = "timeout" /\ outcome[o] = "chunkfail"
        /\ Len(responses[s]) = 1 /\ responses[s] = responses[o]

InFlight(s) == Called(s) /\ ~Ended(s)

\* C20: a session in flight holds its DMA descriptor open, the descriptor
\* its IO registration is on, and no two sessions in flight have the same
\* DMA descriptor.
C20_OwnDescriptor ==
    \A s \in Sessions :
        InFlight(s) =>
            /\ dma[s].xdmaFd \in FdSpace /\ fdOwner[dma[s].xdmaFd] = s
            /\ dma[s].ioArgs.fd = dma[s].xdmaFd
            /\ dma[s].xdmaFd # dma[s].sourceFd
            /\ \A o \in Sessions \ {s} :
                  InFlight(o) => dma[o].xdmaFd # dma[s].xdmaFd

\* C20 witness: two sessions are in flight at once, each on a DMA descriptor
\* of its own
C20_Witness ==
    \E s, o \in Sessions :
        /\ s # o /\ InFlight(s) /\ InFlight(o)
        /\ s \in ioSrc /\ o \in ioSrc
        /\ dma[s].xdmaFd >= 0 /\ dma[o].xdmaFd >= 0
        /\ dma[s].xdmaFd # dma[o].xdmaFd

\* C21: a memory command whose length is below dma::minSize starts no
\* session: no DMA object is made, no descriptor is opened, no timer or IO
\* is registered, no chunk is submitted, nothing is sent through the
\* response interface, and the handler returns PLDM_ERROR_INVALID_LENGTH.
C21_ShortLengthRejected ==
    \A s \in Sessions :
        (Called(s) /\ req[s].length < minSize) =>
            /\ dma[s].state = "none" /\ outcome[s] = "none"
            /\ \A f \in FdSpace : fdOwner[f] # s
            /\ s \notin ioSrc /\ s \notin timerSrc
            /\ chunks[s] = <<>> /\ responses[s] = <<>> /\ mapped[s] = 0
            /\ returned[s] = [done |-> TRUE,
                              response |-> <<[cc |-> PLDM_ERROR_INVALID_LENGTH]>>]

\* C21 witness: a command of length minSize - 1 has been answered by its
\* handler
C21_Witness ==
    \E s \in Sessions :
        /\ Called(s) /\ req[s].length = minSize - 1
        /\ returned[s].done /\ returned[s].response # <<>>

\* C22: whenever transferAll has been called it has returned the empty
\* response, on every path; every response of a session was given to
\* sendPLDMRespMsg with the key of the request's response header, and a
\* session ended with a response interface has been answered that way.
C22_ResponseOnlyThroughInterface ==
    \A s \in Sessions :
        (Called(s) /\ req[s].length >= minSize) =>
            /\ returned[s] = [done |-> TRUE, response |-> <<>>]
            /\ Len(sentKeys[s]) = Len(responses[s])
            /\ \A i \in DOMAIN sentKeys[s] : sentKeys[s][i] = key[s]
            /\ (Ended(s) /\ respInterface[s]) => responses[s] # <<>>

\* C22 witness: a transfer under the second key has completed after its
\* handler returned the empty response, and the response went out under
\* that key
C22_Witness ==
    \E s \in Sessions :
        /\ outcome[s] = "success" /\ key[s] = 2
        /\ returned[s] = [done |-> TRUE, response |-> <<>>]
        /\ responses[s] = <<SuccessResponse(s)>> /\ sentKeys[s] = <<2>>

\* C26: a readiness event whose mask holds neither EPOLLIN nor EPOLLOUT
\* changes nothing of the session: no chunk is submitted, no response sent,
\* and the cursor, the latch, the timer, the IO registration, the
\* descriptors and the DMA object stay as they were.
C26_OtherEventsIgnored ==
    [][(dispatched' # dispatched /\ revents' \cap IOEvents = {}) =>
          UNCHANGED <<dma, part, ioSrc, timerSrc, fdOwner, responses,
                      chunks, outcome, wakes, mapped, sentKeys, returned>>]_vars

\* C26 witness: a session whose final chunk came back short, its cursor
\* still holding the rest, has been dispatched an event of EPOLLERR and
\* EPOLLHUP only and is still in flight
C26_Witness ==
    \E s \in Sessions :
        /\ revents = {"EPOLLERR", "EPOLLHUP"}
        /\ InFlight(s) /\ s \in ioSrc /\ s \in timerSrc
        /\ wakes[s] = 1 /\ Len(chunks[s]) = 1 /\ responses[s] = <<>>

\* C27: a session that sent PLDM_SUCCESS had every chunk it submitted, the
\* chunks of the while loop included, return a count equal to the chunk's
\* length.
C27_SuccessOnlyIfAllFull ==
    \A s \in Sessions :
        (\E i \in DOMAIN responses[s] : responses[s][i].cc = PLDM_SUCCESS) =>
            AllFull(s)

\* C28: in every reachable state a session whose latch responseReceived is
\* set has no timer, in the DMA object or in the event loop; so wherever the
\* timer of a session can fire, the object is alive, the latch is clear and
\* timerCb ends the session: it takes the timeout path and deletes the timer
\* and the IO.
C28_LatchImpliesTimerCancelled ==
    \A s \in Sessions :
        /\ dma[s].responseReceived => (s \notin timerSrc /\ ~dma[s].timer)
        /\ s \in timerSrc =>
              /\ dma[s].state = "alive" /\ ~getResponseReceived(View(s))
              /\ LET a == timerCb(View(s), respInterface[s])
                 IN  /\ a.out = "timeout"
                     /\ ~a.tm /\ ~a.d.timer /\ ~a.d.iotPtr

\* C28 witness: one session has completed with its latch set and its armed
\* timer gone, and another has been ended by the first fire of its watchdog
C28_Witness ==
    \E s, o \in Sessions :
        /\ dma[s].responseReceived /\ outcome[s] = "success"
        /\ dma[s].timerArgs.deadline = TimerDeadline /\ s \notin timerSrc
        /\ outcome[o] = "timeout" /\ ~dma[o].responseReceived
        /\ o \notin timerSrc

\* what a handler leaves behind, its sends apart
Silent(v) == [v EXCEPT !.resp = <<>>, !.keys = <<>>]

\* C29: a session whose response interface is null never sends a response;
\* once ended it has no timer and has released its IO; and wherever its
\* timer can fire or its IO can be dispatched, the handler leaves the timer,
\* the IO, the latch, the descriptors and the DMA object exactly as it would
\* with a response interface, the sends apart.
C29_NullInterfaceSilent ==
    \A s \in Sessions :
        (Called(s) /\ ~respInterface[s]) =>
            /\ responses[s] = <<>> /\ sentKeys[s] = <<>>
            /\ Ended(s) =>
                  s \notin timerSrc /\ ~dma[s].timer /\ ~dma[s].iotPtr
            /\ s \in timerSrc =>
                  timerCb(View(s), FALSE) = Silent(timerCb(View(s), TRUE))
            /\ (s \in ioSrc /\ dma[s].state = "alive") =>
                  \A rcs \in RcChoices(TRUE, part.length) :
                      callback(View(s), FALSE, TRUE, rcs, req[s].length)
                        = Silent(callback(View(s), TRUE, TRUE, rcs,
                                          req[s].length))

\* C29 witness: sessions without a response interface have ended on the
\* success path and on the timeout path, each after its timer was armed,
\* with nothing sent and the timer and the IO gone
C29_Witness ==
    \E s, o \in Sessions :
        /\ ~respInterface[s] /\ ~respInterface[o]
        /\ outcome[s] = "success" /\ outcome[o] = "timeout"
        /\ responses[s] = <<>> /\ responses[o] = <<>>
        /\ dma[s].timerArgs.deadline = TimerDeadline
        /\ dma[o].timerArgs.deadline = TimerDeadline
        /\ {s, o} \cap (timerSrc \cup ioSrc) = {}

\* the run of the soft-off program failed: an option it does not have, an
\* error state after construction, a soft-off request that failed, or the
\* host not off when the timer expired after its response
SoftOffFailed ==
    \/ softoff.argflag = "?"
    \/ softoff.constructed /\ softoff.sp.isError
    \/ softoff.requested /\ softoff.sp.hostSoftOff
    \/ softoff.requested /\ ~softoff.sp.hostSoftOff
         /\ softoff.sp.isTimerExpired /\ softoff.sp.isReceiveResponse

\* C23 as stated: the soft-off program ends with 0 on success and with -1
\* on every failure path, the unrecognised option included.
C23_MinusOneOnEveryFailure ==
    softoff.ran => softoff.code = (IF SoftOffFailed THEN -1 ELSE 0)

\* C23: the soft-off program ends with EXIT_FAILURE, before the
\* SoftPowerOff object is made, when the first option on its command line
\* is not one it has; otherwise with -1 on an error state after
\* construction, on a soft-off request that failed, and on the timer expired
\* after the host's response; and with 0 in every other case.
C23_ExitCodes ==
    softoff.ran =>
        /\ softoff.argflag = "?" =>
              softoff.code = EXIT_FAILURE /\ ~softoff.constructed
        /\ softoff.argflag # "?" =>
              softoff.code = (IF SoftOffFailed THEN -1 ELSE 0)
        /\ softoff.noTimeOut <=>
              (softoff.argflag = "t" /\ softoff.constructed)

\* C23 witness: a run with an unknown option behind a word that is no
\* option has ended with EXIT_FAILURE
C23_Witness ==
    /\ softoff.ran /\ softoff.argv = <<"file", "--bogus">>
    /\ softoff.code = EXIT_FAILURE

\* C30: a signal of the license object has newLicFileAvailable called, with
\* its license string, exactly when its properties hold a LicenseString
\* that is not empty, whatever other properties it carries.
C30_NotifiesIffLicenseString ==
    \A i \in DOMAIN license :
        LET props == license[i].props
        IN  IF "LicenseString" \in DOMAIN props /\ props["LicenseString"] # ""
            THEN license[i].sent = <<props["LicenseString"]>>
            ELSE license[i].sent = <<>>

C36_DestructorClosesAll ==
    \A s \in Sessions :
        dma[s].state = "destroyed" =>
            /\ dma[s].xdmaFd = -1 /\ dma[s].sourceFd = -1
            /\ \A f \in FdSpace : fdOwner[f] # s

\* C35: a run of the soft-off program has sent the soft-off request only
\* with the SoftPowerOff object made and neither isError nor isCompleted
\* answered; it has requested a BMC dump exactly when the request was sent
\* and did not fail and the wait ended with the timer expired and a
\* response received, and then it ends with -1 whether or not the dump
\* request threw; with the timer expired and no response received it ends
\* with 0 and no dump requested.
C35_RequestThenDump ==
    softoff.ran =>
        LET sp == softoff.sp
            waited == softoff.requested /\ ~sp.hostSoftOff
        IN  /\ softoff.requested =>
                  softoff.constructed /\ ~sp.isError /\ ~sp.isCompleted
            /\ softoff.dump # "none" <=>
                  (waited /\ sp.isTimerExpired /\ sp.isReceiveResponse)
            /\ softoff.dump # "none" => softoff.code = -1
            /\ softoff.dump = "threw" <=>
                  (softoff.dump # "none" /\ sp.dumpThrows)
            /\ (waited /\ sp.isTimerExpired /\ ~sp.isReceiveResponse) =>
                  softoff.code = 0

\* C35 witness: a run whose wait ended with the timer expired and a response
\* received has ended with -1 after its dump request threw
C35_Witness ==
    /\ softoff.ran /\ softoff.requested /\ softoff.sp.isTimerExpired
    /\ softoff.sp.isReceiveResponse /\ softoff.dump = "threw"
    /\ softoff.code = -1

\* sequence a is a prefix of sequence b
IsPrefix(a, b) == Len(a) <= Len(b) /\ SubSeq(b, 1, Len(a)) = a

\* C31: dbusToFileHandlers holds as many handlers as notifications have
\* been started; no step removes or changes a handler; and a step that is
\* an InterfacesAdded signal under the resource-dump path appends at most
\* one handler and starts at most one notification, a
\* processNewResourceDump on the path of the signal, and does so only when
\* the signal carries the interface com.ibm.Dump.Entry.Resource.
C31_OneHandlerPerDumpSignal ==
    /\ [](Len(dbusToFileHandlers) = Len(notifications))
    /\ [][/\ IsPrefix(dbusToFileHandlers, dbusToFileHandlers')
          /\ IsPrefix(notifications, notifications')
          /\ (Len(signals') > Len(signals)
              /\ signals'[Len(signals')].match = "resDumpMatcher") =>
                LET sig == signals'[Len(signals')]
                    n == Len(dbusToFileHandlers') - Len(dbusToFileHandlers)
                IN  /\ n \in {0, 1}
                    /\ Len(notifications') - Len(notifications) = n
                    /\ n = 1 =>
                          /\ resDumpEntry \in DOMAIN sig.interfaces
                          /\ dbusToFileHandlers'[Len(dbusToFileHandlers')]
                               = [path |-> sig.path]
                          /\ notifications'[Len(notifications')].notify
                               = "processNewResourceDump"
                    /\ (resDumpEntry \in DOMAIN sig.interfaces
                        /\ ~sig.threw) => n = 1]_vars

\* C31 witness: after a certificate signal that started a notification, a
\* resource-dump signal carrying the resource interface beside another one
\* has appended the second handler and started processNewResourceDump with
\* its two strings
C31_Witness ==
    /\ Len(signals) = 2 /\ signals[1].match = "vmiCertMatcher"
    /\ signals[2].match = "resDumpMatcher"
    /\ DOMAIN signals[2].interfaces
         = {resDumpEntry, "xyz.openbmc_project.Dump.Entry"}
    /\ Len(dbusToFileHandlers) = 2
    /\ notifications[1].notify = "newCsrFileAvailable"
    /\ notifications[2] = [notify |-> "processNewResourceDump",
                           args |-> <<"text", "text">>]


\* the string a host-state signal carried in CurrentHostState, "" if it
\* carried none
HostStateOf(sig) ==
    IF sig.props.has /\ sig.props.value.holds = "string"
    THEN sig.props.value.s ELSE ""
\* the most recent of the host states S among the signals of log, "none"
\* if there was none
RECURSIVE MostRecent(_, _)
MostRecent(log, S) ==
    IF log = <<>> THEN "none"
    ELSE IF HostStateOf(log[Len(log)]) \in S
         THEN HostStateOf(log[Len(log)])
         ELSE MostRecent(SubSeq(log, 1, Len(log) - 1), S)
\* the callback of hostOffMatch has just run
HostSignalTaken == Len(hostSignals') = Len(hostSignals) + 1

\* C32: after any sequence of host-state notifications hostOff is false
\* exactly when the most recent notification among Off and Running was
\* Running, and hostTransitioningToOff is false exactly when the most
\* recent among Running and TransitioningToOff was Running; a notification
\* with another value or without CurrentHostState changes neither flag, and
\* an Off notification leaves hostTransitioningToOff unchanged
C32_FlagsFollowHostState ==
    /\ [](/\ (hostOff = FALSE) <=>
                 (MostRecent(hostSignals, {HostStateOff, HostStateRunning})
                      = HostStateRunning)
          /\ (hostTransitioningToOff = FALSE) <=>
                 (MostRecent(hostSignals, {HostStateRunning,
                                           HostStateTransitioningToOff})
                      = HostStateRunning))
    /\ [][HostSignalTaken =>
            LET v == HostStateOf(hostSignals'[Len(hostSignals')])
            IN  /\ v \notin {HostStateOff, HostStateRunning,
                             HostStateTransitioningToOff}
                   => /\ hostOff' = hostOff
                      /\ hostTransitioningToOff' = hostTransitioningToOff
                /\ v = HostStateOff
                   => hostTransitioningToOff' = hostTransitioningToOff]_vars

\* C32 witness: Running, then Off, then a value the callback has no branch
\* for: the host is off and not transitioning to off
C32_Witness ==
    /\ Len(hostSignals) = 3
    /\ HostStateOf(hostSignals[1]) = HostStateRunning
    /\ HostStateOf(hostSignals[2]) = HostStateOff
    /\ HostStateOf(hostSignals[3]) = HostStateQuiesced
    /\ hostOff = TRUE
    /\ hostTransitioningToOff = FALSE

\* C33: in any interleaving of countSetEventReceiver calls and host-state
\* notifications, right after an Off notification setEventReceiverCnt is 0
\* and the surveillance timer is stopped; Running and TransitioningToOff
\* notifications leave setEventReceiverCnt unchanged
C33_OffResetsCountAndTimer ==
    [][HostSignalTaken =>
         LET v == HostStateOf(hostSignals'[Len(hostSignals')])
         IN  /\ v = HostStateOff
                => setEventReceiverCnt' = 0 /\ timer' = FALSE
             /\ v \in {HostStateRunning, HostStateTransitioningToOff}
                => setEventReceiverCnt' = setEventReceiverCnt]_vars

\* C33 witness: an Off notification found a count of two and a running
\* timer, and left a count of zero and a stopped timer
C33_Witness ==
    /\ hostSignals # <<>>
    /\ HostStateOf(hostSignals[Len(hostSignals)]) = HostStateOff
    /\ hostSignals[Len(hostSignals)].cnt = 2
    /\ hostSignals[Len(hostSignals)].timer = TRUE
    /\ setEventReceiverCnt = 0
    /\ timer = FALSE

\* the objects of the subtree answer of the last chassis signal, in the
\* order of the answer
Answered ==
    SelectSeq(SlotOrder, LAMBDA p : p \in powerSignal.response.paths)
\* the last chassis signal said Off and the subtree query answered
PoweredOff ==
    /\ powerSignal.props.has
    /\ powerSignal.props.value.holds = "string"
    /\ powerSignal.props.value.s = PowerStateOff
    /\ ~powerSignal.response.threw

\* C34: on a chassis power state of Off the callback calls setDbusProperty
\* for every object of the subtree answer: a failure on one object neither
\* keeps the call from the objects after it nor leaves the callback
C34_EverySlotAttempted ==
    PoweredOff =>
        /\ powerSignal.attempts = Answered
        /\ ~powerSignal.threw
        /\ powerSignal.errors =
               SelectSeq(Answered, LAMBDA p : p \in powerSignal.fails)
        /\ \A p \in powerSignal.response.paths \ powerSignal.fails :
               powerSignal.slots[p] = DecoratorOff

\* C34 witness: the answer had three objects, the call for the first
\* failed, and the other two were set to Off
C34_Witness ==
    /\ PoweredOff
    /\ powerSignal.response.paths = SlotPaths
    /\ powerSignal.fails = {"pcieslot0"}
    /\ powerSignal.attempts = SlotOrder
    /\ powerSignal.errors = <<"pcieslot0">>
    /\ slotPower["pcieslot0"] = DecoratorOn
    /\ slotPower["pcieslot1"] = DecoratorOff
    /\ slotPower["pcieslot2"] = DecoratorOff

====
